---- MODULE Spec2Model ----
(***************************************************************************)
(* Request-handling pipeline of the Todo API: logging middleware, routes,  *)
(* controllers and the todos table, as a state machine.                    *)
(*                                                                         *)
(* A handler is cut into steps at its store round trips: the SELECT of     *)
(* db.query(...).first(), and the flush/COMMIT of db.commit() together     *)
(* with the db.refresh() SELECT behind it.  The middleware's lines run in  *)
(* the step they surround.                                                 *)
(*                                                                         *)
(* Spec      one server process (python main.py): the handlers are async   *)
(*           functions without an await inside, so the event loop runs     *)
(*           each to its end before the next request.                      *)
(* SpecRace  two server processes on the same store: the steps of two      *)
(*           requests on one id interleave.                                *)
(***************************************************************************)
EXTENDS Integers, FiniteSets, TLC

\* ---------------------------------------------------------------- bounds
MaxId == 1
MaxClock == 2

Ids == 1..MaxId
\* Ids a request may name: those of the table and one no row ever has.
PathIds == 1..(MaxId + 1)
Times == 0..MaxClock
Workers == {1, 2}
\* The single process of Spec, and the id the two processes of SpecRace
\* contend for.
MainWorker == 1
RaceIds == {1}

\* ---------------------------------------------------------------- values
\* Python's None / SQL NULL / JSON null.
None == "None"
Titles == {"a", "b"}
Descs == {"x"}
Fields == {"title", "description"}
JsonValues == Titles \cup Descs \cup {None}

\* A JSON object over the two field names: absent keys are unset fields.
\* Values are strings or null (other types are refused before the handler).
JsonBodies ==
    UNION {{b \in [S -> JsonValues] :
              /\ "title" \in S => b["title"] \in Titles \cup {None}
              /\ "description" \in S => b["description"] \in Descs \cup {None}}
           : S \in SUBSET Fields}
EmptyBody == CHOOSE b \in JsonBodies : DOMAIN b = {}

NoRow == [absent |-> TRUE]
NoReq == [method |-> "-"]
NoSess == [kind |-> "none"]
NoResp == [status |-> 0]
NoLog == [emitted |-> FALSE]

\* db     the todos table, by id
\* clock  the wall clock
\* tombs  the ids whose delete reported success and that no create was given
\*        since (a history variable: no code reads it)
\* pc     per process: "idle", or "read" between the SELECT and the commit
\* req    per process: the request being handled
\* sess   per process: what the SQLAlchemy session holds for the flush
\* resp   the response and log line of the request that has just completed
VARIABLES db, clock, tombs, pc, req, sess, resp

vars == <<db, clock, tombs, pc, req, sess, resp>>

\* ------------------------------------------------------------ models/todo
\* class TodoCreate: title is a required str, description an optional str.
TodoCreateValid(body) ==
    /\ "title" \in DOMAIN body
    /\ body["title"] # None

TodoCreate(body) ==
    [title |-> body["title"],
     description |-> IF "description" \in DOMAIN body
                     THEN body["description"] ELSE None]

\* class TodoUpdate: both fields default to None; fields_set remembers which
\* fields the payload carried.
TodoUpdate(body) ==
    [fields_set |-> DOMAIN body,
     title |-> IF "title" \in DOMAIN body THEN body["title"] ELSE None,
     description |-> IF "description" \in DOMAIN body
                     THEN body["description"] ELSE None]

\* class TodoResponse: title must be a str, so from_orm raises on a NULL title.
TodoResponseValid(row) == row.title # None

TodoResponse(row) ==
    [id |-> row.id, title |-> row.title, description |-> row.description,
     created_at |-> row.created_at, updated_at |-> row.updated_at]

Present(i) == i \in Ids /\ db[i] # NoRow

\* --------------------------------------------------------- the store
\* The id the store gives an inserted row: some id no row of the table holds
\* (whether a deleted id comes back depends on the store's auto-increment).
FreshIds == {i \in Ids : db[i] = NoRow}

\* datetime.utcnow() and time.time(): the wall clock, which never runs
\* backwards here; of two reads in a row the second returns the same instant
\* or a later one.
UtcNow == clock
LaterReads == {t \in Times : clock <= t /\ t <= clock + 1}

\* ------------------------------------------------------ controller results
Value(v) == [kind |-> "value", value |-> v]
Nothing == [kind |-> "none"]
Raise(e) == [kind |-> "raise", error |-> e]

\* TodoResponse.from_orm(db_todo)
FromOrm(row) ==
    IF TodoResponseValid(row) THEN Value(TodoResponse(row))
    ELSE Raise("ValidationError")

\* -------------------------------------------------------------- routes
Ok(body) == [status |-> 200, body |-> body]
NotFound == [status |-> 404, body |-> [detail |-> "Todo not found"]]
Unprocessable == [status |-> 422, body |-> [detail |-> "validation error"]]
ServerError(e) == [status |-> 500, body |-> [error |-> e]]

\* A route whose controller result is returned as it is (create, list).
RoutePlain(result) ==
    IF result.kind = "raise" THEN ServerError(result.error)
    ELSE Ok(result.value)

\* The route without its `if not todo` check: None reaches the response model.
RouteUnchecked(result) ==
    CASE result.kind = "raise" -> ServerError(result.error)
      [] result.kind = "none" -> ServerError("ResponseValidationError")
      [] OTHER -> Ok(result.value)

\* if not todo: raise HTTPException(status_code=404, detail="Todo not found")
RouteOrNotFound(result) ==
    CASE result.kind = "raise" -> ServerError(result.error)
      [] result.kind = "none" -> NotFound
      [] OTHER -> Ok(result.value)

DeletedMessage == [message |-> "Todo deleted successfully"]

\* if not deleted: raise HTTPException(status_code=404, ...)
RouteDeleted(deleted) == IF deleted THEN Ok(DeletedMessage) ELSE NotFound

\* ------------------------------------------------------- controllers
\* Todo(title=..., description=..., created_at=utcnow(), updated_at=utcnow())
\* with the id the INSERT assigned: t1 and t2 are the two clock reads.
NewTodo(i, todo, t1, t2) ==
    [id |-> i, title |-> todo.title, description |-> todo.description,
     created_at |-> t1, updated_at |-> t2]

\* todo.dict(): exclude_unset left out, the unset fields come as None.
DictAllFields(todo) == [k \in Fields |-> todo[k]]

\* todo.dict(exclude_unset=True)
UpdateData(todo) == [k \in todo.fields_set |-> todo[k]]

\* update_data without the updated_at line.
NoTimestamp(data, t) == data

\* update_data["created_at"] = datetime.utcnow(): the wrong column.
WithCreatedAt(data, t) ==
    [k \in DOMAIN data \cup {"created_at"} |->
        IF k = "created_at" THEN t ELSE data[k]]

\* update_data["updated_at"] = datetime.utcnow()
WithUpdatedAt(data, t) ==
    [k \in DOMAIN data \cup {"updated_at"} |->
        IF k = "updated_at" THEN t ELSE data[k]]

\* for key, value in update_data.items(): setattr(db_todo, key, value)
\* What the session holds for the flush: the attributes whose new value
\* differs from the loaded one.
Changes(loaded, data) ==
    LET ks == {k \in DOMAIN data : data[k] # loaded[k]} IN
      [k \in ks |-> data[k]]

\* The UPDATE the flush emits on the row with the loaded primary key: the
\* changed columns, and updated_at from the column's onupdate (a clock read at
\* flush time) when the statement does not set it.
Flushed(row, changes, t) ==
    [k \in DOMAIN row |->
        IF k \in DOMAIN changes THEN changes[k]
        ELSE IF k = "updated_at" THEN t
        ELSE row[k]]

\* A commit that writes the row back when the UPDATE matches none.
Upserted(i, changes, t) ==
    IF DOMAIN changes = {} THEN db
    ELSE IF Present(i) THEN [db EXCEPT ![i] = Flushed(db[i], changes, t)]
    ELSE [db EXCEPT ![i] =
            [id |-> i,
             title |-> IF "title" \in DOMAIN changes
                       THEN changes["title"] ELSE None,
             description |-> IF "description" \in DOMAIN changes
                             THEN changes["description"] ELSE None,
             created_at |-> t, updated_at |-> t]]

\* The table after db.commit() in update_todo: no statement when nothing
\* changed, and no row written when the UPDATE matches none.
Written(i, changes, t) ==
    IF DOMAIN changes # {} /\ Present(i)
    THEN [db EXCEPT ![i] = Flushed(db[i], changes, t)]
    ELSE db

\* ------------------------------------------------------------ middleware
\* logging_middleware after call_next: an exception of the handler leaves
\* through the await, a response reaches logger.info.
LogLine(method, i, start, end, o) ==
    IF o.status = 500 THEN NoLog
    ELSE [emitted |-> TRUE, method |-> method, path |-> i,
          duration |-> end - start]

\* The response of the request that has just completed and its log line,
\* until both are written out; the next step is taken after that.
Completed(method, i, fields, start, end, o) ==
    [request |-> [method |-> method, id |-> i, fields |-> fields],
     status |-> o.status, body |-> o.body,
     log |-> LogLine(method, i, start, end, o)]

Finish ==
    /\ resp # NoResp
    /\ resp' = NoResp
    /\ UNCHANGED <<db, clock, tombs, pc, req, sess>>

\* ------------------------------------------------------------- handlers
\* POST /todos/ with a body TodoCreate refuses
CreateRefused(w, body) ==
    /\ pc[w] = "idle"
    /\ resp = NoResp
    /\ ~TodoCreateValid(body)
    /\ resp' = Completed("POST", 0, DOMAIN body, clock, clock, Unprocessable)
    /\ UNCHANGED <<db, clock, tombs, pc, req, sess>>

\* POST /todos/: create_todo, the row inserted with id i
Create(w, body, i) ==
    /\ pc[w] = "idle"
    /\ resp = NoResp
    /\ TodoCreateValid(body)
    /\ i \in FreshIds
    /\ \E t2 \in LaterReads :
         LET row == NewTodo(i, TodoCreate(body), UtcNow, t2) IN
           /\ db' = [db EXCEPT ![i] = row]
           /\ clock' = t2
           /\ resp' = Completed("POST", 0, DOMAIN body, clock, t2,
                              RoutePlain(FromOrm(row)))
    /\ tombs' = tombs \ {i}
    /\ UNCHANGED <<pc, req, sess>>

\* get_all_todos()
GetAllTodos ==
    LET rows == {db[i] : i \in {j \in Ids : Present(j)}} IN
      IF \E r \in rows : ~TodoResponseValid(r) THEN Raise("ValidationError")
      ELSE Value({TodoResponse(r) : r \in rows})

\* GET /todos/
List(w) ==
    /\ pc[w] = "idle"
    /\ resp = NoResp
    /\ resp' = Completed("LIST", 0, {}, clock, clock, RoutePlain(GetAllTodos))
    /\ UNCHANGED <<db, clock, tombs, pc, req, sess>>

\* get_todo_by_id(todo_id)
GetTodoById(i) == IF Present(i) THEN FromOrm(db[i]) ELSE Nothing

\* GET /todos/{todo_id}
Get(w, i) ==
    /\ pc[w] = "idle"
    /\ resp = NoResp
    /\ resp' = Completed("GET", i, {}, clock, clock,
                      RouteOrNotFound(GetTodoById(i)))
    /\ UNCHANGED <<db, clock, tombs, pc, req, sess>>

\* PUT /todos/{todo_id} on an id without a row
UpdateMissing(w, i, body) ==
    /\ pc[w] = "idle"
    /\ resp = NoResp
    /\ ~Present(i)
    /\ resp' = Completed("PUT", i, DOMAIN body, clock, clock,
                      RouteOrNotFound(Nothing))
    /\ UNCHANGED <<db, clock, tombs, pc, req, sess>>

\* PUT /todos/{todo_id}: update_todo up to the setattr loop
UpdateRead(w, i, body) ==
    /\ pc[w] = "idle"
    /\ resp = NoResp
    /\ Present(i)
    /\ req' = [req EXCEPT ![w] =
                 [method |-> "PUT", id |-> i, start |-> clock,
                  fields |-> TodoUpdate(body).fields_set]]
    /\ sess' = [sess EXCEPT ![w] =
                 [kind |-> "update", now |-> UtcNow,
                  changes |-> Changes(db[i],
                      WithUpdatedAt(UpdateData(TodoUpdate(body)), UtcNow))]]
    /\ pc' = [pc EXCEPT ![w] = "read"]
    /\ UNCHANGED <<db, clock, tombs, resp>>

\* update_todo from db.commit() on: the flush, the refresh, the response.
UpdateCommit(w) ==
    LET i == req[w].id
        changes == sess[w].changes
        row == Flushed(db[i], changes, UtcNow)
        o == IF DOMAIN changes = {}
             THEN \* nothing to flush; db.refresh() must still find the row
                  IF Present(i) THEN RouteOrNotFound(FromOrm(db[i]))
                  ELSE ServerError("InvalidRequestError")
             ELSE \* UPDATE ... WHERE id = i must match the row
                  IF Present(i) THEN RouteOrNotFound(FromOrm(row))
                  ELSE ServerError("StaleDataError")
    IN
    /\ pc[w] = "read"
    /\ sess[w].kind = "update"
    /\ resp = NoResp
    /\ db' = Written(i, changes, UtcNow)
    /\ resp' = Completed("PUT", i, req[w].fields, req[w].start, clock, o)
    /\ pc' = [pc EXCEPT ![w] = "idle"]
    /\ req' = [req EXCEPT ![w] = NoReq]
    /\ sess' = [sess EXCEPT ![w] = NoSess]
    /\ UNCHANGED <<clock, tombs>>

\* DELETE /todos/{todo_id} on an id without a row
DeleteMissing(w, i) ==
    /\ pc[w] = "idle"
    /\ resp = NoResp
    /\ ~Present(i)
    /\ resp' = Completed("DELETE", i, {}, clock, clock, RouteDeleted(FALSE))
    /\ UNCHANGED <<db, clock, tombs, pc, req, sess>>

\* DELETE /todos/{todo_id}: delete_todo up to db.delete
DeleteRead(w, i) ==
    /\ pc[w] = "idle"
    /\ resp = NoResp
    /\ Present(i)
    /\ req' = [req EXCEPT ![w] =
                 [method |-> "DELETE", id |-> i, start |-> clock, fields |-> {}]]
    /\ sess' = [sess EXCEPT ![w] = [kind |-> "delete"]]
    /\ pc' = [pc EXCEPT ![w] = "read"]
    /\ UNCHANGED <<db, clock, tombs, resp>>

\* delete_todo from db.commit() on: DELETE ... WHERE id = i; a statement that
\* matches no row only warns, and the controller returns True.
DeleteCommit(w) ==
    LET i == req[w].id IN
    /\ pc[w] = "read"
    /\ sess[w].kind = "delete"
    /\ resp = NoResp
    /\ db' = [db EXCEPT ![i] = NoRow]
    /\ tombs' = tombs \cup {i}
    /\ resp' = Completed("DELETE", i, {}, req[w].start, clock,
                      RouteDeleted(TRUE))
    /\ pc' = [pc EXCEPT ![w] = "idle"]
    /\ req' = [req EXCEPT ![w] = NoReq]
    /\ sess' = [sess EXCEPT ![w] = NoSess]
    /\ UNCHANGED clock

\* Time passes.
Tick ==
    /\ resp = NoResp
    /\ clock < MaxClock
    /\ clock' = clock + 1
    /\ UNCHANGED <<db, tombs, pc, req, sess, resp>>

Init ==
    /\ db = [i \in Ids |-> NoRow]
    /\ clock = 0
    /\ tombs = {}
    /\ pc = [w \in Workers |-> "idle"]
    /\ req = [w \in Workers |-> NoReq]
    /\ sess = [w \in Workers |-> NoSess]
    /\ resp = NoResp

Next ==
    \/ \E body \in JsonBodies : CreateRefused(MainWorker, body)
    \/ \E body \in JsonBodies, i \in Ids : Create(MainWorker, body, i)
    \/ List(MainWorker)
    \/ \E i \in PathIds : Get(MainWorker, i)
    \/ \E i \in PathIds, body \in JsonBodies : UpdateMissing(MainWorker, i, body)
    \/ \E i \in PathIds, body \in JsonBodies : UpdateRead(MainWorker, i, body)
    \/ UpdateCommit(MainWorker)
    \/ \E i \in PathIds : DeleteMissing(MainWorker, i)
    \/ \E i \in PathIds : DeleteRead(MainWorker, i)
    \/ DeleteCommit(MainWorker)
    \/ Finish
    \/ Tick

Spec == Init /\ [][Next]_vars

NextRace ==
    \/ \E w \in Workers, body \in JsonBodies : CreateRefused(w, body)
    \/ \E w \in Workers, body \in JsonBodies, i \in RaceIds : Create(w, body, i)
    \/ \E w \in Workers : List(w)
    \/ \E w \in Workers, i \in RaceIds : Get(w, i)
    \/ \E w \in Workers, i \in RaceIds, body \in JsonBodies : UpdateMissing(w, i, body)
    \/ \E w \in Workers, i \in RaceIds, body \in JsonBodies : UpdateRead(w, i, body)
    \/ \E w \in Workers : UpdateCommit(w)
    \/ \E w \in Workers, i \in RaceIds : DeleteMissing(w, i)
    \/ \E w \in Workers, i \in RaceIds : DeleteRead(w, i)
    \/ \E w \in Workers : DeleteCommit(w)
    \/ Finish
    \/ Tick

SpecRace == Init /\ [][NextRace]_vars

\* ================================================================ claims
PresentIds == {i \in Ids : Present(i)}

\* The step in which worker w's update or delete commits.
Commits(w, method) ==
    /\ pc[w] = "read"
    /\ req[w].method = method
    /\ pc'[w] = "idle"

\* A request answered in the step it arrives in.
Answered(method) ==
    /\ resp = NoResp
    /\ resp' # NoResp
    /\ resp'.request.method = method
    /\ pc' = pc

\* C1: an update that finds its row changes on it only the fields the payload
\* carries and updated_at: the omitted ones of title and description, id and
\* created_at keep their values.
C1_UpdateFrame ==
    [][\A w \in Workers :
         Commits(w, "PUT") /\ Present(req[w].id) =>
           LET i == req[w].id IN
             /\ db'[i] # NoRow
             /\ \A k \in {"id", "created_at"} \cup (Fields \ req[w].fields) :
                  db'[i][k] = db[i][k]]_vars

\* C1 witness: an update carrying only the title succeeded on a row whose
\* description is still "x" and whose updated_at it moved.
C1_Witness ==
    /\ resp.status = 200
    /\ resp.request.method = "PUT"
    /\ resp.request.fields = {"title"}
    /\ resp.body.title = "b"
    /\ resp.body.description = "x"
    /\ resp.body.updated_at > resp.body.created_at

\* C2: every persisted row has a non-null title.
C2_TitleNeverNull == \A i \in Ids : Present(i) => db[i].title # None

\* C3: get, update and delete on an id without a row answer 404 "Todo not
\* found" and leave the table as it is.
C3_MissingIdNotFound ==
    [][\A m \in {"GET", "PUT", "DELETE"} :
         Answered(m) /\ ~Present(resp'.request.id) =>
           /\ resp'.status = 404
           /\ resp'.body = [detail |-> "Todo not found"]
           /\ db' = db]_vars

\* C3 witness: an update of an id without a row was answered 404 while the
\* table holds a row.
C3_Witness ==
    /\ resp.status = 404
    /\ resp.request.method = "PUT"
    /\ ~Present(resp.request.id)
    /\ PresentIds # {}

\* C4: an id whose delete reported success, and that no later create was
\* given, has no row; a get of it answers 404 and a list does not show it,
\* whatever requests overlapped the delete.
C4_DeletedStaysGone ==
    /\ \A i \in tombs : ~Present(i)
    /\ (resp.status # 0 /\ resp.request.method = "GET"
           /\ resp.request.id \in tombs)
         => resp.status = 404
    /\ (resp.status = 200 /\ resp.request.method = "LIST")
         => \A v \in resp.body : v.id \notin tombs

\* C4 witness: an update that had read the row before the delete committed
\* has finished, and the row is still gone.
C4_Witness ==
    /\ resp.status = 500
    /\ resp.request.method = "PUT"
    /\ resp.body.error = "StaleDataError"
    /\ resp.request.id \in tombs
    /\ ~Present(resp.request.id)

\* C5: create answers a view with a store-generated id, a null description
\* when none was supplied, and created_at equal to updated_at.
C5_CreateView ==
    (resp.status = 200 /\ resp.request.method = "POST") =>
      /\ resp.body.id \in Ids
      /\ ("description" \notin resp.request.fields)
           => resp.body.description = None
      /\ resp.body.created_at = resp.body.updated_at

UpdateSucceeds(w) == Commits(w, "PUT") /\ resp'.status = 200

\* C7 as stated: every successful update leaves updated_at strictly greater
\* than it was.
C7_StrictlyAdvances ==
    [][\A w \in Workers :
         UpdateSucceeds(w) =>
           db'[req[w].id].updated_at > db[req[w].id].updated_at]_vars

\* C7 amended: a successful update, with zero fields too, leaves updated_at
\* at or after the instant the update read from the clock, which is at or
\* after the previous updated_at: never earlier than before nor than
\* created_at, and later than before whenever the clock has moved on.
C7_NotEarlier ==
    [][\A w \in Workers :
         UpdateSucceeds(w) =>
           LET i == req[w].id IN
             /\ db'[i].updated_at >= sess[w].now
             /\ sess[w].now >= db[i].updated_at
             /\ db'[i].updated_at >= db'[i].created_at
             /\ sess[w].now > db[i].updated_at =>
                  db'[i].updated_at > db[i].updated_at]_vars

\* C7 witness: an update with zero fields has moved updated_at past
\* created_at.
C7_Witness ==
    /\ resp.status = 200
    /\ resp.request.method = "PUT"
    /\ resp.request.fields = {}
    /\ resp.body.updated_at > resp.body.created_at

\* C8: list_all answers exactly the rows created and not deleted, one view
\* each with the row's current values.
C8_ListExact ==
    resp.status # 0 /\ resp.request.method = "LIST" =>
      /\ resp.status = 200
      /\ resp.body = {TodoResponse(db[i]) : i \in PresentIds}
      /\ Cardinality(resp.body) = Cardinality(PresentIds)

\* C9: every request that went through the middleware has its one log line
\* with the method, the path and a non-negative duration, whatever the
\* outcome of the handler.
C9_AlwaysLogged ==
    resp.status # 0 =>
      /\ resp.log.emitted
      /\ resp.log.method = resp.request.method
      /\ resp.log.path = resp.request.id
      /\ resp.log.duration >= 0

\* C10: an update or delete whose row a concurrent delete removed between
\* its read and its commit changes nothing and is answered 404 (an update
\* possibly 200), never with a fault, so that only one of two overlapping
\* deletes reports success.
C10_LoserIsNoOp ==
    [][\A w \in Workers :
         (Commits(w, "PUT") \/ Commits(w, "DELETE")) /\ ~Present(req[w].id) =>
           /\ db' = db
           /\ IF req[w].method = "DELETE" THEN resp'.status = 404
              ELSE resp'.status \in {200, 404}]_vars

====
